---- MODULE Spec2Model ----
(***************************************************************************)
(* Model of src/binary/object.hpp (cpptrace): resolution of a raw         *)
(* instruction address to the loaded object that owns it and to an        *)
(* address in that object's link-time layout.                             *)
(*                                                                         *)
(* The three build variants of get_frame_object_info (_dl_find_object,    *)
(* dladdr1, GetModuleHandleExA) are selected by `strategy`, fixed at       *)
(* start-up the way the preprocessor fixes it at build time.               *)
(*                                                                         *)
(* The platform is modelled by two loaded objects, the main executable    *)
(* ("exe", whose link_map name is empty) and one shared library ("lib"),   *)
(* each mapped at a runtime base and built for a static image base.       *)
(* frame_ptr is std::uintptr_t; it is scaled down to PtrBits bits and all  *)
(* pointer arithmetic is done modulo 2^PtrBits.                            *)
(***************************************************************************)
EXTENDS Integers, Sequences, FiniteSets, TLC

\* ------------------------------------------------------------------------
\* Bounds of the model
\* ------------------------------------------------------------------------
PtrBits == 3
NumThreads == 2
MaxBatch == 2
ObjSize == 2
ExeBase == 1

Modulus == 2 ^ PtrBits
Addrs == 0 .. (Modulus - 1)
Threads == 1 .. NumThreads
MainThread == CHOOSE t \in Threads : TRUE
Objects == {"exe", "lib"}

ExePath == "/usr/bin/app"
LibPath == "/usr/lib/libfoo.so"
MissingPath == "<nonexistent>"
AllPaths == {ExePath, LibPath, MissingPath, ""}

\* the runtime bases the library may be mapped at: right behind the
\* executable, or at the top of the address space
LibBases == {ExeBase + ObjSize, Modulus - ObjSize - 1}
\* the link-time bases an object may have been built for
StaticBases == {0, 1, Modulus - 1}

VARIABLES
    strategy,     \* build variant: "dl_find_object", "dladdr1" or "windows"
    loaded,       \* platform: object -> [base, image_base]
    readlinkOK,   \* platform: readlink("/proc/self/exe") succeeds
    fileNameOK,   \* platform: object -> GetModuleFileNameA succeeds for it
    baseOK,       \* Image Base Provider: object -> lookup succeeds for its path
    cache,        \* get_module_name's static unordered_map, as <<handle, path>> pairs
    mutex,        \* get_module_name's static mutex: 0 free, else the holder
    queries,      \* handle -> number of GetModuleFileNameA calls issued (capped at 2)
    pc,           \* thread -> position
    caller,       \* thread -> what called the running function
    addr,         \* thread -> argument of get_frame_object_info
    handle,       \* thread -> HMODULE found by GetModuleHandleExA
    frame,        \* thread -> object_frame under construction / returned
    touched,      \* thread -> what the running get_frame_object_info call used
    batch,        \* thread -> argument of get_frames_object_info
    frames,       \* thread -> result vector of get_frames_object_info
    sframe,       \* thread -> argument of resolve_safe_object_frame
    out           \* thread -> outcome of resolve_safe_object_frame

env == <<strategy, loaded, readlinkOK, fileNameOK, baseOK>>
shared == <<cache, mutex, queries>>
locals == <<pc, caller, addr, handle, frame, touched, batch, frames, sframe, out>>
vars == <<strategy, loaded, readlinkOK, fileNameOK, baseOK, cache, mutex, queries,
          pc, caller, addr, handle, frame, touched, batch, frames, sframe, out>>

\* ------------------------------------------------------------------------
\* Pointer arithmetic
\* ------------------------------------------------------------------------
Wrap(x) == x % Modulus

\* ------------------------------------------------------------------------
\* The platform
\* ------------------------------------------------------------------------
PathOf(o) == IF o = "exe" THEN ExePath ELSE LibPath

Owners(address) ==
    {o \in Objects : /\ loaded[o].base <= address
                     /\ address < loaded[o].base + ObjSize}
Owned(address) == Owners(address) # {}
OwnerOf(address) == CHOOSE o \in Owners(address) : TRUE

\* link_map::l_name: empty for the running executable
l_name(o) == IF o = "exe" THEN "" ELSE PathOf(o)
\* link_map::l_addr: difference between the addresses in memory and the
\* addresses in the ELF file
l_addr(o) == Wrap(loaded[o].base - loaded[o].image_base)
\* Dl_info::dli_fbase: the address the object is loaded at
dli_fbase(o) == loaded[o].base
\* HMODULE: the base address of the module
ModuleHandle(o) == loaded[o].base
ModuleOf(h) == CHOOSE o \in Objects : ModuleHandle(o) = h

\* GetModuleFileNameA(handle, path, sizeof(path)): success flag and buffer
GetModuleFileNameA(h) ==
    IF fileNameOK[ModuleOf(h)]
    THEN [ok |-> TRUE, path |-> PathOf(ModuleOf(h))]
    ELSE [ok |-> FALSE, path |-> "<uninitialized>"]

\* get_module_image_base(path): the Image Base Provider
get_module_image_base(path) ==
    IF \E o \in Objects : PathOf(o) = path /\ baseOK[o]
    THEN LET o == CHOOSE o \in Objects : PathOf(o) = path
         IN  [has_value |-> TRUE, value |-> loaded[o].image_base, error |-> ""]
    ELSE [has_value |-> FALSE, value |-> 0, error |-> path]

\* ------------------------------------------------------------------------
\* Linux / Apple
\* ------------------------------------------------------------------------
resolve_l_name(name) ==
    IF name # ""
    THEN name
    ELSE IF readlinkOK THEN ExePath ELSE ""

\* the frame whose object_address is not zeroed before the lookup
InitFrame_NotZeroed(address) ==
    [raw_address |-> address, object_address |-> address, object_path |-> ""]

InitFrame(address) ==
    [raw_address |-> address, object_address |-> 0, object_path |-> ""]

\* l_addr added instead of subtracted
DlFindObjectAddress_Added(address, laddr) == Wrap(address + laddr)

DlFindObjectAddress(address, laddr) == Wrap(address - laddr)

\* get_frame_object_info, CPPTRACE_HAS_DL_FIND_OBJECT
DlFindObjectFrame(address) ==
    IF Owned(address)
    THEN [InitFrame(address) EXCEPT
              !.object_path = resolve_l_name(l_name(OwnerOf(address))),
              !.object_address = DlFindObjectAddress(address, l_addr(OwnerOf(address)))]
    ELSE InitFrame(address)

\* the static base is not added
Dladdr1ObjectAddress_NoBase(address, fbase, base) == Wrap(address - fbase)

Dladdr1ObjectAddress(address, fbase, base) == Wrap(address - fbase + base)

\* the path is kept only when the Image Base Provider succeeds
Dladdr1Found_PathLost(fr, address, o) ==
    LET path == resolve_l_name(l_name(o))
        base == get_module_image_base(path)
    IN  IF base.has_value
        THEN [fr EXCEPT !.object_path = path,
                        !.object_address =
                            Dladdr1ObjectAddress(address, dli_fbase(o), base.value)]
        ELSE fr

\* the body of the `if(dladdr1(...))` of get_frame_object_info
Dladdr1Found(fr, address, o) ==
    LET path == resolve_l_name(l_name(o))
        base == get_module_image_base(path)
    IN  IF base.has_value
        THEN [fr EXCEPT !.object_path = path,
                        !.object_address =
                            Dladdr1ObjectAddress(address, dli_fbase(o), base.value)]
        ELSE [fr EXCEPT !.object_path = path]

\* get_frame_object_info, dladdr1
Dladdr1Frame(address) ==
    IF Owned(address)
    THEN Dladdr1Found(InitFrame(address), address, OwnerOf(address))
    ELSE InitFrame(address)

\* ------------------------------------------------------------------------
\* Windows
\* ------------------------------------------------------------------------
\* the mutex is released before the query of a missing handle
LockGuard_ReleasedOnMiss(t, missed) == IF missed THEN 0 ELSE t

\* std::lock_guard<std::mutex> lock(mutex): who holds the mutex once
\* cache.find has run, whether or not the handle was missing
LockGuard(t, missed) == t

\* cache.find(handle) != cache.end()
CacheHas(h) == \E e \in cache : e[1] = h
\* it->second
CacheAt(h) == (CHOOSE e \in cache : e[1] = h)[2]
\* a failed query leaves no entry
CacheInsert_NoNegative(c, h, path) ==
    IF path = "" \/ (\E e \in c : e[1] = h) THEN c ELSE c \cup {<<h, path>>}

\* cache.insert(it, {handle, path}): no effect if the key is present
CacheInsert(c, h, path) ==
    IF \E e \in c : e[1] = h THEN c ELSE c \cup {<<h, path>>}

\* the buffer is stored whether or not the query filled it
InsertedPath_Buffer(r) == r.path

\* the string get_module_name stores on a miss
InsertedPath(r) == IF r.ok THEN r.path ELSE ""
\* the string get_module_name returns on a miss
ReturnedPath(r) == IF r.ok THEN r.path ELSE ""

WinObjectAddress(address, h, base) == Wrap(address - h + base)

\* ------------------------------------------------------------------------
\* Deferred resolution
\* ------------------------------------------------------------------------
\* the static base is not added
ResolvedObjectAddress_NoBase(offset, base) == Wrap(offset)

ResolvedObjectAddress(offset, base) == Wrap(offset + base)

\* the provider's error is dropped as in the eager variants
resolve_safe_object_frame_Swallow(f) ==
    LET base == get_module_image_base(f.object_path)
    IN  [kind |-> "frame",
         frame |-> [raw_address |-> f.raw_address,
                    object_address |->
                        IF base.has_value
                        THEN Wrap(f.address_relative_to_object_start + base.value)
                        ELSE 0,
                    object_path |-> f.object_path],
         error |-> ""]

resolve_safe_object_frame(f) ==
    LET base == get_module_image_base(f.object_path)
    IN  IF ~base.has_value
        THEN [kind |-> "throw",
              frame |-> [raw_address |-> 0, object_address |-> 0,
                         object_path |-> "<none>"],
              error |-> base.error]
        ELSE [kind |-> "frame",
              frame |-> [raw_address |-> f.raw_address,
                         object_address |->
                             ResolvedObjectAddress(f.address_relative_to_object_start,
                                                   base.value),
                         object_path |-> f.object_path],
              error |-> ""]

\* the safe_object_frame captured for an address that an object owns
Capture(address) ==
    [raw_address |-> address,
     address_relative_to_object_start |->
         Wrap(address - loaded[OwnerOf(address)].base),
     object_path |-> PathOf(OwnerOf(address))]

\* the frame is put in front
PushFront(fs, f) == <<f>> \o fs

\* frames.push_back(...)
PushBack(fs, f) == Append(fs, f)

\* ------------------------------------------------------------------------
\* Defaults of the locals of a thread that runs nothing
\* ------------------------------------------------------------------------
NoFrame == [raw_address |-> 0, object_address |-> 0, object_path |-> "<none>"]
NoSafeFrame ==
    [raw_address |-> 0, address_relative_to_object_start |-> 0, object_path |-> "<none>"]
NoOut == [kind |-> "none", frame |-> NoFrame, error |-> ""]
Untouched == [provider |-> FALSE, cache |-> FALSE]

\* the addresses the batch and the concurrent callers work on: one that no
\* object owns, one of the executable, one of the library
SharedAddrs == {0, loaded["exe"].base, loaded["lib"].base + 1}

Environments ==
    [exe : [base : {ExeBase}, image_base : {0, Modulus - 1}],
     lib : [base : LibBases, image_base : StaticBases]]

InitLocals ==
    /\ cache = {}
    /\ mutex = 0
    /\ queries = [h \in Addrs |-> 0]
    /\ pc = [t \in Threads |-> "idle"]
    /\ caller = [t \in Threads |-> "none"]
    /\ addr = [t \in Threads |-> 0]
    /\ handle = [t \in Threads |-> 0]
    /\ frame = [t \in Threads |-> NoFrame]
    /\ touched = [t \in Threads |-> Untouched]
    /\ batch = [t \in Threads |-> << >>]
    /\ frames = [t \in Threads |-> << >>]
    /\ sframe = [t \in Threads |-> NoSafeFrame]
    /\ out = [t \in Threads |-> NoOut]

Init ==
    /\ strategy \in {"dl_find_object", "dladdr1", "windows"}
    /\ loaded \in Environments
    /\ readlinkOK \in BOOLEAN
    /\ fileNameOK \in [Objects -> BOOLEAN]
    /\ baseOK \in [Objects -> BOOLEAN]
    \* a platform answer that the build variant never asks for is fixed
    /\ strategy = "windows" => readlinkOK
    /\ strategy # "windows" => \A o \in Objects : fileNameOK[o]
    /\ InitLocals

\* ------------------------------------------------------------------------
\* Inputs
\* ------------------------------------------------------------------------
\* the address a call of get_frame_object_info by thread t is made with:
\* any address from a direct caller, the next element from the batch loop
Args(t) ==
    IF pc[t] = "idle" THEN Addrs
    ELSE IF pc[t] = "batch_loop" THEN {batch[t][Len(frames[t]) + 1]}
    ELSE {}

RECURSIVE SeqsUpTo(_, _)
SeqsUpTo(S, n) ==
    IF n = 0 THEN {<< >>}
    ELSE LET shorter == SeqsUpTo(S, n - 1)
         IN  shorter \cup {Append(q, x) : q \in shorter, x \in S}

BatchInputs == SeqsUpTo(SharedAddrs, MaxBatch)

\* offsets that stay in range and offsets that wrap once a base is added
Offsets == {0, 1, Modulus - 1}

SafeFrames ==
    [raw_address : {0, loaded["lib"].base + 1},
     address_relative_to_object_start : Offsets,
     object_path : AllPaths]

\* ------------------------------------------------------------------------
\* get_frame_object_info
\* ------------------------------------------------------------------------
DlFindObject(t, a) ==
    /\ strategy = "dl_find_object"
    /\ a \in Args(t)
    /\ addr' = [addr EXCEPT ![t] = a]
    /\ frame' = [frame EXCEPT ![t] = DlFindObjectFrame(a)]
    /\ touched' = [touched EXCEPT ![t] = Untouched]
    /\ pc' = [pc EXCEPT ![t] = "ret"]
    /\ UNCHANGED <<env, shared, caller, handle, batch, frames, sframe, out>>

Dladdr1(t, a) ==
    /\ strategy = "dladdr1"
    /\ a \in Args(t)
    /\ addr' = [addr EXCEPT ![t] = a]
    /\ frame' = [frame EXCEPT ![t] = Dladdr1Frame(a)]
    /\ touched' = [touched EXCEPT ![t] = [provider |-> Owned(a), cache |-> FALSE]]
    /\ pc' = [pc EXCEPT ![t] = "ret"]
    /\ UNCHANGED <<env, shared, caller, handle, batch, frames, sframe, out>>

\* Windows: up to the call of get_module_name, or to the return if
\* GetModuleHandleExA fails
GetModuleHandle(t, a) ==
    /\ strategy = "windows"
    /\ a \in Args(t)
    /\ addr' = [addr EXCEPT ![t] = a]
    /\ frame' = [frame EXCEPT ![t] = InitFrame(a)]
    /\ touched' = [touched EXCEPT ![t] = Untouched]
    /\ IF Owned(a)
       THEN /\ handle' = [handle EXCEPT ![t] = ModuleHandle(OwnerOf(a))]
            /\ pc' = [pc EXCEPT ![t] = "gmn_lock"]
       ELSE /\ handle' = handle
            /\ pc' = [pc EXCEPT ![t] = "ret"]
    /\ UNCHANGED <<env, shared, caller, batch, frames, sframe, out>>

GetModuleName_Lock(t) ==
    /\ pc[t] = "gmn_lock"
    /\ mutex = 0
    /\ mutex' = t
    /\ touched' = [touched EXCEPT ![t].cache = TRUE]
    /\ pc' = [pc EXCEPT ![t] = "gmn_find"]
    /\ UNCHANGED <<env, cache, queries, caller, addr, handle, frame, batch, frames,
                   sframe, out>>

GetModuleName_Find(t) ==
    /\ pc[t] = "gmn_find"
    /\ mutex' = LockGuard(t, ~CacheHas(handle[t]))
    /\ pc' = [pc EXCEPT ![t] = IF CacheHas(handle[t]) THEN "gmn_hit" ELSE "gmn_query"]
    /\ UNCHANGED <<env, cache, queries, caller, addr, handle, frame, touched, batch,
                   frames, sframe, out>>

\* the miss branch: GetModuleFileNameA completes, the result is inserted
\* and returned, the lock_guard releases the mutex
GetModuleName_Miss(t) ==
    /\ pc[t] = "gmn_query"
    /\ LET r == GetModuleFileNameA(handle[t])
       IN  /\ cache' = CacheInsert(cache, handle[t], InsertedPath(r))
           /\ frame' = [frame EXCEPT ![t].object_path = ReturnedPath(r)]
    /\ queries' = [queries EXCEPT ![handle[t]] = IF @ < 2 THEN @ + 1 ELSE @]
    /\ mutex' = 0
    /\ pc' = [pc EXCEPT ![t] = "image_base"]
    /\ UNCHANGED <<env, caller, addr, handle, touched, batch, frames, sframe, out>>

GetModuleName_Hit(t) ==
    /\ pc[t] = "gmn_hit"
    /\ frame' = [frame EXCEPT ![t].object_path = CacheAt(handle[t])]
    /\ mutex' = 0
    /\ pc' = [pc EXCEPT ![t] = "image_base"]
    /\ UNCHANGED <<env, cache, queries, caller, addr, handle, touched, batch, frames,
                   sframe, out>>

ImageBase(t) ==
    /\ pc[t] = "image_base"
    /\ LET base == get_module_image_base(frame[t].object_path)
       IN  frame' = [frame EXCEPT ![t].object_address =
                        IF base.has_value
                        THEN WinObjectAddress(addr[t], handle[t], base.value)
                        ELSE @]
    /\ touched' = [touched EXCEPT ![t].provider = TRUE]
    /\ pc' = [pc EXCEPT ![t] = "ret"]
    /\ UNCHANGED <<env, shared, caller, addr, handle, batch, frames, sframe, out>>

ReturnFrame(t) ==
    /\ pc[t] = "ret"
    /\ caller[t] = "none"
    /\ pc' = [pc EXCEPT ![t] = "idle"]
    /\ addr' = [addr EXCEPT ![t] = 0]
    /\ handle' = [handle EXCEPT ![t] = 0]
    /\ frame' = [frame EXCEPT ![t] = NoFrame]
    /\ touched' = [touched EXCEPT ![t] = Untouched]
    /\ UNCHANGED <<env, shared, caller, batch, frames, sframe, out>>

\* ------------------------------------------------------------------------
\* get_frames_object_info
\* ------------------------------------------------------------------------
GetFramesObjectInfo(t, addresses) ==
    /\ pc[t] = "idle"
    /\ addresses \in BatchInputs
    /\ batch' = [batch EXCEPT ![t] = addresses]
    /\ frames' = [frames EXCEPT ![t] = << >>]
    /\ caller' = [caller EXCEPT ![t] = "batch"]
    /\ pc' = [pc EXCEPT ![t] = IF addresses = << >> THEN "batch_ret" ELSE "batch_loop"]
    /\ UNCHANGED <<env, shared, addr, handle, frame, touched, sframe, out>>

LoopPushBack(t) ==
    /\ pc[t] = "ret"
    /\ caller[t] = "batch"
    /\ frames' = [frames EXCEPT ![t] = PushBack(@, frame[t])]
    /\ pc' = [pc EXCEPT ![t] = IF Len(frames'[t]) = Len(batch[t])
                               THEN "batch_ret" ELSE "batch_loop"]
    /\ addr' = [addr EXCEPT ![t] = 0]
    /\ handle' = [handle EXCEPT ![t] = 0]
    /\ frame' = [frame EXCEPT ![t] = NoFrame]
    /\ touched' = [touched EXCEPT ![t] = Untouched]
    /\ UNCHANGED <<env, shared, caller, batch, sframe, out>>

ReturnFrames(t) ==
    /\ pc[t] = "batch_ret"
    /\ pc' = [pc EXCEPT ![t] = "idle"]
    /\ caller' = [caller EXCEPT ![t] = "none"]
    /\ batch' = [batch EXCEPT ![t] = << >>]
    /\ frames' = [frames EXCEPT ![t] = << >>]
    /\ UNCHANGED <<env, shared, addr, handle, frame, touched, sframe, out>>

\* ------------------------------------------------------------------------
\* resolve_safe_object_frame
\* ------------------------------------------------------------------------
Resolve(t, f) ==
    /\ sframe' = [sframe EXCEPT ![t] = f]
    /\ out' = [out EXCEPT ![t] = resolve_safe_object_frame(f)]
    /\ pc' = [pc EXCEPT ![t] = IF out'[t].kind = "frame" THEN "resolved" ELSE "thrown"]
    /\ UNCHANGED <<env, shared, addr, handle, frame, touched, batch, frames>>

ResolveSafeObjectFrame(t, f) ==
    /\ pc[t] = "idle"
    /\ f \in SafeFrames
    /\ caller' = caller
    /\ Resolve(t, f)

\* the deferred pipeline: the address that get_frame_object_info has just
\* resolved eagerly is captured as a safe_object_frame and resolved later
ResolveCaptured(t) ==
    /\ pc[t] = "ret"
    /\ caller[t] = "none"
    /\ Owned(addr[t])
    /\ caller' = [caller EXCEPT ![t] = "capture"]
    /\ Resolve(t, Capture(addr[t]))

ReturnResolved(t) ==
    /\ pc[t] \in {"resolved", "thrown"}
    /\ pc' = [pc EXCEPT ![t] = "idle"]
    /\ caller' = [caller EXCEPT ![t] = "none"]
    /\ addr' = [addr EXCEPT ![t] = 0]
    /\ handle' = [handle EXCEPT ![t] = 0]
    /\ frame' = [frame EXCEPT ![t] = NoFrame]
    /\ touched' = [touched EXCEPT ![t] = Untouched]
    /\ sframe' = [sframe EXCEPT ![t] = NoSafeFrame]
    /\ out' = [out EXCEPT ![t] = NoOut]
    /\ UNCHANGED <<env, shared, batch, frames>>

\* ------------------------------------------------------------------------
\* Specifications
\* ------------------------------------------------------------------------
\* one caller, every build variant, every entry point
Next ==
    \/ \E a \in Addrs : DlFindObject(MainThread, a)
    \/ \E a \in Addrs : Dladdr1(MainThread, a)
    \/ \E a \in Addrs : GetModuleHandle(MainThread, a)
    \/ GetModuleName_Lock(MainThread)
    \/ GetModuleName_Find(MainThread)
    \/ GetModuleName_Miss(MainThread)
    \/ GetModuleName_Hit(MainThread)
    \/ ImageBase(MainThread)
    \/ ReturnFrame(MainThread)
    \/ \E addresses \in BatchInputs : GetFramesObjectInfo(MainThread, addresses)
    \/ LoopPushBack(MainThread)
    \/ ReturnFrames(MainThread)
    \/ \E f \in SafeFrames : ResolveSafeObjectFrame(MainThread, f)
    \/ ResolveCaptured(MainThread)
    \/ ReturnResolved(MainThread)

Spec == Init /\ [][Next]_vars

\* NumThreads callers of the handle-based get_frame_object_info on the
\* shared addresses, no module loaded or unloaded meanwhile
InitMT ==
    /\ strategy = "windows"
    /\ loaded = [exe |-> [base |-> ExeBase, image_base |-> 0],
                 lib |-> [base |-> Modulus - ObjSize - 1, image_base |-> 1]]
    /\ readlinkOK = TRUE
    /\ fileNameOK \in [Objects -> BOOLEAN]
    /\ baseOK \in [Objects -> BOOLEAN]
    /\ InitLocals

NextMT ==
    \E t \in Threads :
        \/ \E a \in SharedAddrs : GetModuleHandle(t, a)
        \/ GetModuleName_Lock(t)
        \/ GetModuleName_Find(t)
        \/ GetModuleName_Miss(t)
        \/ GetModuleName_Hit(t)
        \/ ImageBase(t)
        \/ ReturnFrame(t)

SpecMT == InitMT /\ [][NextMT]_vars

\* ------------------------------------------------------------------------
\* What a single-threaded run returns
\* ------------------------------------------------------------------------
\* get_frame_object_info, Windows, run start to end by one thread on a
\* cache that does not hold the handle
WinFrame(address) ==
    IF Owned(address)
    THEN LET h == ModuleHandle(OwnerOf(address))
             path == ReturnedPath(GetModuleFileNameA(h))
             base == get_module_image_base(path)
         IN  [InitFrame(address) EXCEPT
                  !.object_path = path,
                  !.object_address =
                      IF base.has_value
                      THEN WinObjectAddress(address, h, base.value)
                      ELSE @]
    ELSE InitFrame(address)

\* get_frame_object_info of the configured build variant
LocateResult(address) ==
    IF strategy = "dl_find_object" THEN DlFindObjectFrame(address)
    ELSE IF strategy = "dladdr1" THEN Dladdr1Frame(address)
    ELSE WinFrame(address)

\* ------------------------------------------------------------------------
\* Vocabulary of the properties
\* ------------------------------------------------------------------------
\* thread t is inside get_frame_object_info, or at its return
InLocate(t) ==
    pc[t] \in {"gmn_lock", "gmn_find", "gmn_query", "gmn_hit", "image_base", "ret"}
\* thread t is inside the critical section of get_module_name
InGetModuleName(t) == pc[t] \in {"gmn_find", "gmn_query", "gmn_hit"}
\* the platform tells the locator the path of object o
PathQueryOK(o) ==
    IF strategy = "windows" THEN fileNameOK[o] ELSE (o # "exe" \/ readlinkOK)
\* the path the locator identifies for object o
IdentifiedPath(o) == IF PathQueryOK(o) THEN PathOf(o) ELSE ""
\* the Image Base Provider succeeds for the on-disk path of object o
ProviderOK(o) == get_module_image_base(PathOf(o)).has_value
StaticBase(o) == get_module_image_base(PathOf(o)).value
\* raw_address - runtime_load_base + static_image_base, pointer width
Relative(address, o) == (address - loaded[o].base + StaticBase(o)) % Modulus

\* ------------------------------------------------------------------------
\* Properties
\* ------------------------------------------------------------------------

\* C1 as stated: for every build variant, an address owned by a loaded
\* object whose path the Image Base Provider succeeds for is returned with
\* object_address = address - runtime base + static base and with the
\* object's path.
C1_AsStated ==
    \A t \in Threads :
        (pc[t] = "ret" /\ Owned(addr[t]) /\ ProviderOK(OwnerOf(addr[t])))
        => /\ frame[t].object_address = Relative(addr[t], OwnerOf(addr[t]))
           /\ frame[t].object_path = PathOf(OwnerOf(addr[t]))

\* C1 amended: the same, provided the platform also reports the object's
\* path to the locator (l_name is non-empty or readlink of /proc/self/exe
\* succeeds; GetModuleFileNameA succeeds).
C1_Relocated ==
    \A t \in Threads :
        (/\ pc[t] = "ret"
         /\ Owned(addr[t])
         /\ ProviderOK(OwnerOf(addr[t]))
         /\ PathQueryOK(OwnerOf(addr[t])))
        => /\ frame[t].raw_address = addr[t]
           /\ frame[t].object_address = Relative(addr[t], OwnerOf(addr[t]))
           /\ frame[t].object_path = PathOf(OwnerOf(addr[t]))

\* C1 witness: the _dl_find_object variant has returned for an address of
\* the library, whose static base is not zero and whose l_addr wrapped.
C1_Witness ==
    \E t \in Threads :
        /\ pc[t] = "ret"
        /\ strategy = "dl_find_object"
        /\ Owned(addr[t])
        /\ OwnerOf(addr[t]) = "lib"
        /\ ProviderOK("lib")
        /\ loaded["lib"].image_base = Modulus - 1
        /\ loaded["lib"].base < loaded["lib"].image_base
        /\ frame[t].object_address = Relative(addr[t], "lib")

\* C2: an address that no loaded object owns comes back, without a throw,
\* as the frame {address, 0, ""}; the call neither reaches the Image Base
\* Provider nor get_module_name's cache.
C2_NotOwned ==
    \A t \in Threads :
        (InLocate(t) /\ ~Owned(addr[t]))
        => /\ pc[t] = "ret"
           /\ frame[t] = [raw_address |-> addr[t], object_address |-> 0,
                          object_path |-> ""]
           /\ ~touched[t].provider
           /\ ~touched[t].cache
           /\ out[t].kind # "throw"

\* C2 witness: a call for the last address of the address space, which no
\* object owns, has returned while the cache holds entries.
C2_Witness ==
    \E t \in Threads :
        /\ pc[t] = "ret"
        /\ addr[t] = Modulus - 1
        /\ ~Owned(addr[t])
        /\ cache # {}

\* C3: when the Image Base Provider fails for frame.object_path,
\* resolve_safe_object_frame returns no frame: it throws the provider's
\* error.
C3_Throws ==
    \A t \in Threads :
        (/\ pc[t] \in {"resolved", "thrown"}
         /\ ~get_module_image_base(sframe[t].object_path).has_value)
        => /\ pc[t] = "thrown"
           /\ out[t].kind = "throw"
           /\ out[t].error = get_module_image_base(sframe[t].object_path).error

\* C3 witness: resolve_safe_object_frame has thrown for a frame with a
\* non-zero offset into an object that does not exist.
C3_Witness ==
    \E t \in Threads :
        /\ pc[t] = "thrown"
        /\ sframe[t].object_path = MissingPath
        /\ sframe[t].address_relative_to_object_start = 1

\* C4: when the Image Base Provider succeeds for frame.object_path, every
\* call of resolve_safe_object_frame returns {raw_address, offset + static
\* base, object_path}, a function of its input and of the base alone, and
\* leaves the cache, the mutex and the platform as they were.
C4_Pure ==
    [][\A t \in Threads :
        (/\ pc[t] \in {"idle", "ret"}
         /\ pc'[t] \in {"resolved", "thrown"}
         /\ get_module_image_base(sframe'[t].object_path).has_value)
        => /\ pc'[t] = "resolved"
           /\ out'[t].kind = "frame"
           /\ out'[t].frame =
                [raw_address |-> sframe'[t].raw_address,
                 object_address |->
                     (sframe'[t].address_relative_to_object_start
                      + get_module_image_base(sframe'[t].object_path).value) % Modulus,
                 object_path |-> sframe'[t].object_path]
           /\ UNCHANGED <<env, shared>>]_vars

\* C4 witness: a frame has been resolved whose offset plus static base
\* wrapped around the pointer width, with entries in the cache.
C4_Witness ==
    \E t \in Threads :
        /\ pc[t] = "resolved"
        /\ sframe[t].address_relative_to_object_start
           + get_module_image_base(sframe[t].object_path).value >= Modulus
        /\ sframe[t].raw_address # 0
        /\ cache # {}

\* C5 as stated: the frame captured for an owned address resolves to
\* exactly the frame get_frame_object_info returned for that address.
C5_AsStated ==
    \A t \in Threads :
        (pc[t] \in {"resolved", "thrown"} /\ caller[t] = "capture")
        => /\ out[t].kind = "frame"
           /\ out[t].frame = frame[t]

\* C5 amended: the same, provided the Image Base Provider succeeds for the
\* object's path and the platform reports that path to the locator.
C5_Equivalent ==
    \A t \in Threads :
        (/\ pc[t] \in {"resolved", "thrown"}
         /\ caller[t] = "capture"
         /\ ProviderOK(OwnerOf(addr[t]))
         /\ PathQueryOK(OwnerOf(addr[t])))
        => /\ sframe[t] = Capture(addr[t])
           /\ out[t].kind = "frame"
           /\ out[t].frame = frame[t]

\* C5 witness: the deferred resolution of an address of the executable,
\* built for a non-zero static base, has returned after the eager one.
C5_Witness ==
    \E t \in Threads :
        /\ pc[t] = "resolved"
        /\ caller[t] = "capture"
        /\ OwnerOf(addr[t]) = "exe"
        /\ loaded["exe"].image_base # 0
        /\ addr[t] # loaded["exe"].base
        /\ out[t].frame = frame[t]

\* C6: get_frames_object_info returns as many frames as it got addresses,
\* frame i being the frame of get_frame_object_info for address i; at
\* every turn of the loop the frames so far are those of the addresses so
\* far, in order.
C6_Batch ==
    \A t \in Threads :
        /\ (pc[t] = "batch_ret") => Len(frames[t]) = Len(batch[t])
        /\ (pc[t] \in {"batch_loop", "batch_ret"})
           => /\ Len(frames[t]) <= Len(batch[t])
              /\ \A i \in 1 .. Len(frames[t]) :
                    frames[t][i] = LocateResult(batch[t][i])

\* C6 witness: a batch has returned whose first address failed to resolve
\* and whose last address resolved.
C6_Witness ==
    \E t \in Threads :
        /\ pc[t] = "batch_ret"
        /\ Len(batch[t]) = MaxBatch
        /\ frames[t][1] = InitFrame(batch[t][1])
        /\ frames[t][MaxBatch].object_address # 0
        /\ frames[t][MaxBatch].object_path # ""

\* C7: whatever the interleaving, GetModuleFileNameA is called at most
\* once per handle; a failed query leaves an empty string in the cache and
\* a later call for that handle returns it without a new query; an entry
\* of the cache is never changed or removed.
C7_Cache ==
    [][/\ \A h \in Addrs : queries'[h] <= 1
       /\ cache \subseteq cache'
       /\ \A e1, e2 \in cache' : e1[1] = e2[1] => e1 = e2
       /\ \A t \in Threads :
            /\ (/\ pc[t] = "gmn_query"
                /\ pc'[t] = "image_base"
                /\ ~GetModuleFileNameA(handle[t]).ok)
               => <<handle[t], "">> \in cache'
            /\ (/\ pc[t] = "gmn_find"
                /\ pc'[t] # "gmn_find"
                /\ CacheHas(handle[t]))
               => (pc'[t] = "gmn_hit" /\ queries' = queries)
            /\ (/\ pc[t] = "gmn_hit"
                /\ pc'[t] = "image_base"
                /\ ~GetModuleFileNameA(handle[t]).ok)
               => (frame'[t].object_path = "" /\ queries' = queries)]_vars

\* C7 witness: a call finds the negative entry that an earlier call left
\* for its handle, while another thread is inside get_frame_object_info.
C7_Witness ==
    \E t, u \in Threads :
        /\ t # u
        /\ pc[t] = "gmn_hit"
        /\ <<handle[t], "">> \in cache
        /\ queries[handle[t]] = 1
        /\ InLocate(u)
        /\ handle[u] = handle[t]

\* C8: under every interleaving each caller gets, for its address, the
\* frame a single-threaded run returns, and any two callers that have the
\* path of the same handle have the same path, the one the cache holds.
C8_Concurrent ==
    \A t \in Threads :
        /\ (pc[t] = "ret") => frame[t] = WinFrame(addr[t])
        /\ (pc[t] \in {"image_base", "ret"} /\ Owned(addr[t]))
           => /\ <<handle[t], frame[t].object_path>> \in cache
              /\ \A u \in Threads :
                    (pc[u] \in {"image_base", "ret"} /\ Owned(addr[u])
                     /\ handle[u] = handle[t])
                    => frame[u].object_path = frame[t].object_path

\* C8 witness: two threads have returned for the same owned address after
\* a single, failed, path query for its handle.
C8_Witness ==
    \E t, u \in Threads :
        /\ t # u
        /\ pc[t] = "ret"
        /\ pc[u] = "ret"
        /\ addr[t] = addr[u]
        /\ Owned(addr[t])
        /\ ~fileNameOK[OwnerOf(addr[t])]
        /\ queries[handle[t]] = 1

\* C9: in the dladdr1 and the Windows variant, when the owner is found
\* but the Image Base Provider fails for the path identified for it, the
\* call returns {address, 0, identified path} and nothing is thrown.
C9_Degrades ==
    \A t \in Threads :
        /\ InLocate(t) => out[t].kind # "throw"
        /\ (/\ pc[t] = "ret"
            /\ strategy \in {"dladdr1", "windows"}
            /\ Owned(addr[t])
            /\ ~get_module_image_base(IdentifiedPath(OwnerOf(addr[t]))).has_value)
           => frame[t] = [raw_address |-> addr[t], object_address |-> 0,
                          object_path |-> IdentifiedPath(OwnerOf(addr[t]))]

\* C9 witness: the dladdr1 variant has returned for an address of the
\* library, for whose path the Image Base Provider fails.
C9_Witness ==
    \E t \in Threads :
        /\ pc[t] = "ret"
        /\ strategy = "dladdr1"
        /\ Owned(addr[t])
        /\ OwnerOf(addr[t]) = "lib"
        /\ ~ProviderOK("lib")
        /\ frame[t].object_path = LibPath
        /\ addr[t] # 0

\* C10 as stated: no thread holds the cache's mutex while a
\* GetModuleFileNameA query is in progress.
C10_AsStated ==
    \A t \in Threads : pc[t] = "gmn_query" => mutex = 0

\* C10 amended: the mutex is held from the entry of get_module_name to its
\* return, the GetModuleFileNameA query of a miss included, and is held
\* nowhere else.
C10_HeldAcrossQuery ==
    /\ \A t \in Threads : InGetModuleName(t) => mutex = t
    /\ mutex # 0 => InGetModuleName(mutex)

\* C10 witness: a thread waits for the mutex to look up a handle that is
\* in the cache while another thread's query is pending.
C10_Witness ==
    \E t, u \in Threads :
        /\ pc[t] = "gmn_query"
        /\ mutex = t
        /\ pc[u] = "gmn_lock"
        /\ CacheHas(handle[u])

====
